---- MODULE Spec2Model ----
(***************************************************************************)
(* A model of fintopy.prices.PricesSeriesAccessor: the accessor that       *)
(* validates and sorts a price series at construction and then derives     *)
(* new series and scalars from it.                                         *)
(*                                                                         *)
(* A series is a sequence of <<key, value>> pairs.  A key is a timestamp,  *)
(* counted in ticks of which TicksPerDay make a day (tick 0 is the epoch,  *)
(* Thursday 1970-01-01 00:00).  A value is a float, written <<tag, n, d>>: *)
(*   <<"fin", n, d>>  the number n/d in lowest terms, d > 0                *)
(*   <<"log", n, d>>  the number ln(n/d), n/d in lowest terms, n, d > 0    *)
(*   <<"inf", s, 1>>  plus (s = 1) or minus (s = -1) infinity              *)
(*   <<"nan", 0, 1>>  NaN, the missing marker                              *)
(* Arithmetic is exact on the numbers and IEEE-754 on infinity and NaN.    *)
(***************************************************************************)
EXTENDS Integers, Sequences, FiniteSets, TLC

VARIABLES series, pc, err, self_series, call, ret, memo

vars == <<series, pc, err, self_series, call, ret, memo>>

(***************************************************************************)
(* Bounds of the model.                                                    *)
(***************************************************************************)
\* longest series whose prices are all finite and positive
MaxLen == 3
\* longest series drawn with prices and index types of every kind
MaxAnyLen == 2
\* keys of those series are the ticks 0..MaxKey
MaxKey == 2
\* longest series, and last tick, of the series set_frequency is checked on
MaxFreqLen == 3
MaxFreqKey == 8
\* longest series, and last tick, of the series an observer watches
MaxTwiceLen == 2
MaxTwiceKey == 1
\* the periods of log_returns and pct_returns are 1..MaxPeriod
MaxPeriod == 2

\* the resolution of the timestamps: ticks in a day
TicksPerDay == 2

(***************************************************************************)
(* Floats.                                                                 *)
(***************************************************************************)
RECURSIVE GCD(_, _)
GCD(a, b) == IF b = 0 THEN a ELSE GCD(b, a % b)

Abs(n) == IF n < 0 THEN -n ELSE n

Sign(n) == IF n < 0 THEN -1 ELSE IF n = 0 THEN 0 ELSE 1

NaN == <<"nan", 0, 1>>

Inf(s) == <<"inf", s, 1>>

\* n/d (d # 0) in lowest terms with a positive denominator
Fin(n, d) ==
    LET g == GCD(Abs(n), Abs(d))
        s == IF d < 0 THEN -1 ELSE 1
    IN  <<"fin", (s * n) \div g, (s * d) \div g>>

\* ln(n/d), n, d > 0
LogOf(n, d) == LET g == GCD(n, d) IN <<"log", n \div g, d \div g>>

Num(n) == <<"fin", n, 1>>

IsNaN(a) == a[1] = "nan"

IsInf(a) == a[1] = "inf"

\* the sign of a float that is not NaN
SignOf(a) ==
    IF a[1] = "log" THEN (IF a[2] > a[3] THEN 1 ELSE IF a[2] = a[3] THEN 0 ELSE -1)
    ELSE Sign(a[2])

\* a > 0 as Python evaluates it: False on NaN
Gt0(a) == ~IsNaN(a) /\ SignOf(a) = 1

\* a <= b on floats that are not NaN ("fin" and "inf" only)
Le(a, b) ==
    IF IsInf(a) THEN (a[2] = -1 \/ (IsInf(b) /\ b[2] = 1))
    ELSE IF IsInf(b) THEN b[2] = 1
    ELSE a[2] * b[3] <= b[2] * a[3]

Neg(a) ==
    IF IsNaN(a) THEN NaN
    ELSE IF IsInf(a) THEN Inf(-a[2])
    ELSE IF a[1] = "log" THEN LogOf(a[3], a[2])
    ELSE Fin(-a[2], a[3])

\* a - b; the two numbers are both "fin" or both "log"
Sub(a, b) ==
    IF IsNaN(a) \/ IsNaN(b) THEN NaN
    ELSE IF IsInf(a) THEN (IF IsInf(b) /\ a[2] = b[2] THEN NaN ELSE a)
    ELSE IF IsInf(b) THEN Inf(-b[2])
    ELSE IF a[1] = "log" THEN LogOf(a[2] * b[3], a[3] * b[2])
    ELSE Fin(a[2] * b[3] - b[2] * a[3], a[3] * b[3])

\* a * b on "fin", "inf" and NaN
Mul(a, b) ==
    IF IsNaN(a) \/ IsNaN(b) THEN NaN
    ELSE IF IsInf(a) \/ IsInf(b)
         THEN (IF SignOf(a) * SignOf(b) = 0 THEN NaN ELSE Inf(SignOf(a) * SignOf(b)))
    ELSE Fin(a[2] * b[2], a[3] * b[3])

\* a / b on "fin", "inf" and NaN, as numpy divides floats: x/0 is an infinity or NaN
Div(a, b) ==
    IF IsNaN(a) \/ IsNaN(b) THEN NaN
    ELSE IF IsInf(a) THEN (IF IsInf(b) THEN NaN
                           ELSE Inf(a[2] * (IF SignOf(b) < 0 THEN -1 ELSE 1)))
    ELSE IF IsInf(b) THEN Num(0)
    ELSE IF b[2] = 0 THEN (IF a[2] = 0 THEN NaN ELSE Inf(Sign(a[2])))
    ELSE Fin(a[2] * b[3], a[3] * b[2])

\* numpy.log
np_log(a) ==
    IF IsNaN(a) THEN NaN
    ELSE IF IsInf(a) THEN (IF a[2] = 1 THEN a ELSE NaN)
    ELSE IF a[2] < 0 THEN NaN
    ELSE IF a[2] = 0 THEN Inf(-1)
    ELSE LogOf(a[2], a[3])

(***************************************************************************)
(* Series.                                                                 *)
(***************************************************************************)
Key(e) == e[1]

Value(e) == e[2]

Keys(s) == [i \in 1..Len(s) |-> Key(s[i])]

\* Index.is_unique
is_unique(s) == \A i, j \in 1..Len(s) : Key(s[i]) = Key(s[j]) => i = j

\* the place of entry e in the ascending series s: after every key not above e's
RECURSIVE Insert(_, _)
Insert(s, e) ==
    IF s = <<>> THEN <<e>>
    ELSE IF Key(s[Len(s)]) <= Key(e) THEN Append(s, e)
    ELSE Append(Insert(SubSeq(s, 1, Len(s) - 1), e), s[Len(s)])

\* sort_index gone wrong: the series is kept in the caller's order
sort_index_kept(s) == s

\* Series.sort_index(): ascending by key
RECURSIVE sort_index(_)
sort_index(s) ==
    IF s = <<>> THEN <<>>
    ELSE Insert(sort_index(SubSeq(s, 1, Len(s) - 1)), s[Len(s)])

(***************************************************************************)
(* Construction.                                                           *)
(***************************************************************************)
\* _validate gone wrong: duplicated keys pass
_validate_no_unique(ser) ==
    IF ser.inferred_type # "datetime64" THEN "TypeError"
    ELSE IF ~(\A i \in 1..Len(ser.items) : Gt0(Value(ser.items[i]))) THEN "ValueError"
    ELSE "none"

\* PricesSeriesAccessor._validate: the error it raises, or "none"
_validate(ser) ==
    IF ser.inferred_type # "datetime64" THEN "TypeError"
    ELSE IF ~is_unique(ser.items) THEN "ValueError"
    ELSE IF ~(\A i \in 1..Len(ser.items) : Gt0(Value(ser.items[i]))) THEN "ValueError"
    ELSE "none"

\* PricesSeriesAccessor.__init__: the error raised and the series stored
__init__(ser) ==
    IF _validate(ser) # "none"
    THEN [err |-> _validate(ser), _series |-> <<>>]
    ELSE [err |-> "none", _series |-> sort_index(ser.items)]

(***************************************************************************)
(* The frequency grid: pandas' date offsets 'B', 'W-FRI' and 'D', and      *)
(* Series.asfreq, on which set_frequency rests.                            *)
(***************************************************************************)
\* the day of the week of tick t, Monday 0 to Sunday 6
Weekday(t) == ((t \div TicksPerDay) + 3) % 7

\* the time of day of tick t
TimeOfDay(t) == t % TicksPerDay

KnownFreq(freq) == freq \in {"B", "W-FRI", "D"}

\* offset.is_on_offset: the day of the week decides, not the time of day
is_on_offset(freq, t) ==
    IF freq = "B" THEN Weekday(t) < 5
    ELSE IF freq = "W-FRI" THEN Weekday(t) = 4
    ELSE TRUE

\* t + offset: the next business day, the next Friday, the next day, at t's time
apply_offset(freq, t) ==
    LET wd == Weekday(t)
        days == IF freq = "B" THEN (IF wd < 4 THEN 1 ELSE 7 - wd)
                ELSE IF freq = "W-FRI" THEN (IF wd = 4 THEN 7 ELSE (4 - wd) % 7)
                ELSE 1
    IN  t + days * TicksPerDay

\* offset.rollforward
rollforward(freq, t) == IF is_on_offset(freq, t) THEN t ELSE apply_offset(freq, t)

\* offset.rollback: t - offset when t is not on the offset
rollback(freq, t) ==
    LET wd == Weekday(t)
        days == IF freq = "B" THEN wd - 4 ELSE (wd - 4) % 7
    IN  IF is_on_offset(freq, t) THEN t ELSE t - days * TicksPerDay

\* the points cur, cur + offset, ... up to end
RECURSIVE RangeFrom(_, _, _)
RangeFrom(freq, cur, end) ==
    IF cur > end THEN <<>>
    ELSE <<cur>> \o RangeFrom(freq, apply_offset(freq, cur), end)

\* pandas.date_range(start, end, freq=freq): a start off the offset is rolled
\* forward; else an end off the offset is rolled back
date_range(start, end, freq) ==
    LET s1 == rollforward(freq, start)
        e1 == IF is_on_offset(freq, start) THEN rollback(freq, end) ELSE end
    IN  IF e1 < s1 THEN <<>> ELSE RangeFrom(freq, s1, e1)

\* the value Series.reindex gives the new key g of the ascending series s
Fill(s, g, method) ==
    LET at     == {i \in 1..Len(s) : Key(s[i]) = g}
        before == {i \in 1..Len(s) : Key(s[i]) < g}
        after  == {i \in 1..Len(s) : Key(s[i]) > g}
    IN  IF at # {} THEN Value(s[CHOOSE i \in at : TRUE])
        ELSE IF method = "pad" /\ before # {}
             THEN Value(s[CHOOSE i \in before : \A j \in before : j <= i])
        ELSE IF method = "backfill" /\ after # {}
             THEN Value(s[CHOOSE i \in after : \A j \in after : i <= j])
        ELSE NaN

\* Series.reindex(index, method=method)
reindex(s, index, method) == [i \in 1..Len(index) |-> <<index[i], Fill(s, index[i], method)>>]

SeriesRet(s) == [kind |-> "series", val |-> s]

ScalarRet(v) == [kind |-> "scalar", val |-> v]

Raise(e) == [kind |-> "raise", val |-> e]

\* Series.asfreq(freq, method)
asfreq(s, freq, method) ==
    IF ~KnownFreq(freq) THEN Raise("ValueError")
    ELSE IF Len(s) = 0 THEN SeriesRet(s)
    ELSE SeriesRet(reindex(s, date_range(Key(s[1]), Key(s[Len(s)]), freq), method))

(***************************************************************************)
(* The operations.  Each gives the series the accessor stores after the    *)
(* call (self) and what the call returns or raises (ret).                  *)
(***************************************************************************)
\* set_frequency gone wrong: 'BW' is handed to asfreq as it is
set_frequency_no_alias(self, freq, method) == [self |-> self, ret |-> asfreq(self, freq, method)]

\* PricesSeriesAccessor.set_frequency
set_frequency(self, freq, method) ==
    LET f == IF freq = "BW" THEN "W-FRI" ELSE freq
    IN  [self |-> self, ret |-> asfreq(self, f, method)]

\* rebase gone wrong: the rebased series is stored in place of the prices
rebase_in_place(self, base) ==
    IF Len(self) = 0 THEN [self |-> self, ret |-> Raise("IndexError")]
    ELSE LET r == [i \in 1..Len(self) |->
                     <<Key(self[i]), Mul(Div(Value(self[i]), Value(self[1])), Num(base))>>]
         IN  [self |-> r, ret |-> SeriesRet(r)]

\* rebase gone wrong: every value is divided by the last value, not the first
rebase_by_last(self, base) ==
    IF Len(self) = 0 THEN [self |-> self, ret |-> Raise("IndexError")]
    ELSE [self |-> self,
          ret |-> SeriesRet([i \in 1..Len(self) |->
                     <<Key(self[i]),
                       Mul(Div(Value(self[i]), Value(self[Len(self)])), Num(base))>>])]

\* PricesSeriesAccessor.rebase
rebase(self, base) ==
    IF Len(self) = 0 THEN [self |-> self, ret |-> Raise("IndexError")]
    ELSE [self |-> self,
          ret |-> SeriesRet([i \in 1..Len(self) |->
                     <<Key(self[i]), Mul(Div(Value(self[i]), Value(self[1])), Num(base))>>])]

\* shift gone wrong: the values move down by one place whatever the period
shift_one(s, period) ==
    [i \in 1..Len(s) |-> <<Key(s[i]), IF i <= 1 THEN NaN ELSE Value(s[i - 1])>>]

\* Series.shift(period): the values move down by period places, NaN moves in
shift(s, period) ==
    [i \in 1..Len(s) |-> <<Key(s[i]), IF i <= period THEN NaN ELSE Value(s[i - period])>>]

\* Series.diff(period)
diff(s, period) ==
    [i \in 1..Len(s) |-> <<Key(s[i]), Sub(Value(s[i]), Value(shift(s, period)[i]))>>]

\* Series.pct_change(period)
pct_change(s, period) ==
    [i \in 1..Len(s) |->
        <<Key(s[i]), Sub(Div(Value(s[i]), Value(shift(s, period)[i])), Num(1))>>]

\* Series.dropna()
RECURSIVE dropna(_)
dropna(s) ==
    IF s = <<>> THEN <<>>
    ELSE IF IsNaN(Value(s[1])) THEN dropna(Tail(s))
    ELSE <<s[1]>> \o dropna(Tail(s))

\* PricesSeriesAccessor.log_returns
log_returns(self, period, drop) ==
    LET logs == [i \in 1..Len(self) |-> <<Key(self[i]), np_log(Value(self[i]))>>]
    IN  [self |-> self,
         ret |-> SeriesRet(IF drop THEN dropna(diff(logs, period)) ELSE diff(logs, period))]

\* PricesSeriesAccessor.pct_returns
pct_returns(self, period, drop) ==
    [self |-> self,
     ret |-> SeriesRet(IF drop THEN dropna(pct_change(self, period))
                       ELSE pct_change(self, period))]

\* PricesSeriesAccessor.abs_return
abs_return(self) ==
    IF Len(self) = 0 THEN [self |-> self, ret |-> Raise("IndexError")]
    ELSE [self |-> self,
          ret |-> ScalarRet(Sub(Div(Value(self[Len(self)]), Value(self[1])), Num(1)))]

\* days gone wrong: the elapsed ticks, not the whole days in them
days_in_ticks(self) == Key(self[Len(self)]) - Key(self[1])

\* (self._series.index[-1] - self._series.index[0]).days of a series with an entry
days(self) == (Key(self[Len(self)]) - Key(self[1])) \div TicksPerDay

\* PricesSeriesAccessor.annualized_return: a numpy float divided by no days is an
\* infinity or NaN
annualized_return(self, base) ==
    LET a == abs_return(self)
    IN  IF a.ret.kind = "raise" THEN a
        ELSE [self |-> a.self,
              ret |-> ScalarRet(Div(Mul(a.ret.val, Num(base)), Num(days(a.self))))]

\* PricesSeriesAccessor.cagr: base / days is Python's division, which raises on no
\* days; the power val[1] ** val[2] is kept as its two operands, the result being it - 1
cagr(self, base) ==
    LET a == abs_return(self)
    IN  IF a.ret.kind = "raise" THEN a
        ELSE IF days(a.self) = 0 THEN [self |-> a.self, ret |-> Raise("ZeroDivisionError")]
        ELSE [self |-> a.self,
              ret |-> [kind |-> "power",
                       val |-> <<Sub(a.ret.val, Num(-1)), Fin(base, days(a.self))>>]]

\* cummax gone wrong: the maximum of the whole series at every key
cummax_overall(s) ==
    [i \in 1..Len(s) |->
        <<Key(s[i]),
          Value(s[CHOOSE j \in 1..Len(s) : \A k \in 1..Len(s) : Le(Value(s[k]), Value(s[j]))])>>]

\* Series.cummax(): the running maximum
cummax(s) ==
    [i \in 1..Len(s) |->
        <<Key(s[i]),
          Value(s[CHOOSE j \in 1..i : \A k \in 1..i : Le(Value(s[k]), Value(s[j]))])>>]

\* PricesSeriesAccessor.drawdown
drawdown(self, negative) ==
    LET dd == [i \in 1..Len(self) |->
                 <<Key(self[i]),
                   Div(Sub(Value(cummax(self)[i]), Value(self[i])), Value(cummax(self)[i]))>>]
    IN  [self |-> self,
         ret |-> SeriesRet(IF negative
                           THEN [i \in 1..Len(dd) |-> <<Key(dd[i]), Mul(Value(dd[i]), Num(-1))>>]
                           ELSE dd)]

\* Series.max(): the largest value that is not NaN, NaN when there is none
series_max(s) ==
    LET d == dropna(s)
    IN  IF d = <<>> THEN NaN
        ELSE Value(d[CHOOSE j \in 1..Len(d) : \A k \in 1..Len(d) : Le(Value(d[k]), Value(d[j]))])

\* Series.min(): the smallest value that is not NaN, NaN when there is none
series_min(s) ==
    LET d == dropna(s)
    IN  IF d = <<>> THEN NaN
        ELSE Value(d[CHOOSE j \in 1..Len(d) : \A k \in 1..Len(d) : Le(Value(d[j]), Value(d[k]))])

\* max_drawdown gone wrong: the maximum is taken of the negative series too
max_drawdown_max_only(self, negative) ==
    [self |-> drawdown(self, negative).self,
     ret |-> ScalarRet(series_max(drawdown(self, negative).ret.val))]

\* max_drawdown gone wrong: Python's max(), which raises on an empty series
max_drawdown_builtin_max(self, negative) ==
    IF Len(self) = 0 THEN [self |-> self, ret |-> Raise("ValueError")]
    ELSE IF negative
    THEN [self |-> self, ret |-> ScalarRet(series_min(drawdown(self, TRUE).ret.val))]
    ELSE [self |-> self, ret |-> ScalarRet(series_max(drawdown(self, FALSE).ret.val))]

\* PricesSeriesAccessor.max_drawdown
max_drawdown(self, negative) ==
    IF negative
    THEN [self |-> drawdown(self, TRUE).self,
          ret |-> ScalarRet(series_min(drawdown(self, TRUE).ret.val))]
    ELSE [self |-> drawdown(self, FALSE).self,
          ret |-> ScalarRet(series_max(drawdown(self, FALSE).ret.val))]

(***************************************************************************)
(* The state machine.                                                      *)
(*   series       the caller's series: its index's inferred_type and items *)
(*   pc           "new" before the accessor is constructed, "ready" once   *)
(*                __init__ returned, "raised" once it raised               *)
(*   err          the error __init__ raised, "none" if none                *)
(*   self_series  the accessor's _series                                   *)
(*   call, ret    the last call made on the accessor and what it returned  *)
(*   memo         what an observer (obs "on"; "off": there is none) kept:  *)
(*                the series stored when __init__ returned, the first call *)
(*                made and its result, and whether another call followed   *)
(***************************************************************************)
SeqsUpTo(S, n) == UNION {[1..k -> S] : k \in 0..n}

FinitePrices == {Num(1), Num(2), Num(3)}

\* the prices that pass the price check: infinity is above zero
GoodPrices == FinitePrices \cup {Inf(1)}

BadPrices == {Num(-1), Num(0), NaN}

IndexTypes == {"datetime64", "integer"}

\* short series of every kind, and longer ones of finite positive prices
Inputs ==
    [inferred_type : IndexTypes,
     items : SeqsUpTo((0..MaxKey) \X (GoodPrices \cup BadPrices), MaxAnyLen)]
    \cup
    [inferred_type : {"datetime64"}, items : SeqsUpTo((0..MaxKey) \X FinitePrices, MaxLen)]

\* series over five days, Thursday to Monday, for set_frequency
FreqInputs ==
    [inferred_type : {"datetime64"},
     items : SeqsUpTo((0..MaxFreqKey) \X {Num(1), Num(2)}, MaxFreqLen)]

TwiceInputs ==
    [inferred_type : {"datetime64"},
     items : SeqsUpTo((0..MaxTwiceKey) \X {Num(1), Num(2)}, MaxTwiceLen)]

Freqs == {"B", "BW", "D"}

Methods == {"none", "pad", "backfill"}

RebaseBases == {-1, 100}

YearBases == {252, 365}

Periods == 1..MaxPeriod

NoCall == [op |-> "none", args |-> <<>>]

NoRet == [kind |-> "none", val |-> <<>>]

InitWith(inputs, obs) ==
    /\ series \in inputs
    /\ pc = "new"
    /\ err = "none"
    /\ self_series = <<>>
    /\ call = NoCall
    /\ ret = NoRet
    /\ memo = [obs |-> obs, stored |-> <<>>, call |-> NoCall, ret |-> NoRet,
               between |-> FALSE]

Init == InitWith(Inputs, "off")

InitFreq == InitWith(FreqInputs, "off")

InitTwice == InitWith(TwiceInputs, "on")

SameCall(a, b) == a.op = b.op /\ a.args = b.args

\* s.prices: the accessor is constructed from the caller's series
Construct ==
    /\ pc = "new"
    /\ err' = __init__(series).err
    /\ self_series' = __init__(series)._series
    /\ pc' = IF __init__(series).err = "none" THEN "ready" ELSE "raised"
    /\ memo' = IF memo.obs = "on" THEN [memo EXCEPT !.stored = self_series'] ELSE memo
    /\ UNCHANGED <<series, call, ret>>

\* a call op(args) on the constructed accessor, r being what the operation gives
Called(op, args, r) ==
    /\ pc = "ready"
    /\ self_series' = r.self
    /\ call' = [op |-> op, args |-> args]
    /\ ret' = r.ret
    /\ memo' = IF memo.obs = "off" THEN memo
               ELSE IF memo.call.op = "none"
                    THEN [memo EXCEPT !.call = call', !.ret = ret']
               ELSE IF SameCall(call', memo.call) THEN memo
               ELSE [memo EXCEPT !.between = TRUE]
    /\ UNCHANGED <<series, pc, err>>

SetFrequency ==
    \E freq \in Freqs, method \in Methods :
        Called("set_frequency", <<freq, method>>, set_frequency(self_series, freq, method))

Rebase ==
    \E base \in RebaseBases : Called("rebase", <<base>>, rebase(self_series, base))

LogReturns ==
    \E period \in Periods, drop \in BOOLEAN :
        Called("log_returns", <<period, drop>>, log_returns(self_series, period, drop))

PctReturns ==
    \E period \in Periods, drop \in BOOLEAN :
        Called("pct_returns", <<period, drop>>, pct_returns(self_series, period, drop))

AbsReturn == Called("abs_return", <<>>, abs_return(self_series))

AnnualizedReturn ==
    \E base \in YearBases :
        Called("annualized_return", <<base>>, annualized_return(self_series, base))

Cagr ==
    \E base \in YearBases : Called("cagr", <<base>>, cagr(self_series, base))

Drawdown ==
    \E negative \in BOOLEAN :
        Called("drawdown", <<negative>>, drawdown(self_series, negative))

MaxDrawdown ==
    \E negative \in BOOLEAN :
        Called("max_drawdown", <<negative>>, max_drawdown(self_series, negative))

Next ==
    \/ Construct
    \/ SetFrequency
    \/ Rebase
    \/ LogReturns
    \/ PctReturns
    \/ AbsReturn
    \/ AnnualizedReturn
    \/ Cagr
    \/ Drawdown
    \/ MaxDrawdown

NextFreq == Construct \/ SetFrequency

Spec == Init /\ [][Next]_vars

\* set_frequency alone, on series that span a weekend
SpecFreq == InitFreq /\ [][NextFreq]_vars

\* every operation, an observer keeping the first call and its result
SpecTwice == InitTwice /\ [][Next]_vars

(***************************************************************************)
(* The claims.                                                             *)
(***************************************************************************)
\* a == b as Python evaluates it on floats: False when either is NaN
FloatEq(a, b) == ~IsNaN(a) /\ ~IsNaN(b) /\ a = b

IsDatetime(ser) == ser.inferred_type = "datetime64"

HasDuplicateKeys(s) == Cardinality({Key(s[i]) : i \in 1..Len(s)}) < Len(s)

ZeroOrNegative(v) == v[1] \in {"fin", "inf"} /\ v[2] <= 0

HasZeroOrNegative(s) == \E i \in 1..Len(s) : ZeroOrNegative(Value(s[i]))

HasMissing(s) == \E i \in 1..Len(s) : IsNaN(Value(s[i]))

Ascending(s) == \A i \in 1..(Len(s) - 1) : Key(s[i]) < Key(s[i + 1])

AllFinite(s) == \A i \in 1..Len(s) : Value(s[i])[1] = "fin"

Entries(s) == {s[i] : i \in 1..Len(s)}

Returned(op) == pc = "ready" /\ call.op = op

\* C1 as claimed: construction raises TypeError on an index that is not date/time
\* typed, ValueError on duplicated keys, ValueError on a zero or negative price,
\* succeeds on every other input, and leaves no accessor when it raises.
C1_AsClaimed ==
    pc # "new" =>
        /\ ~IsDatetime(series) => pc = "raised" /\ err = "TypeError"
        /\ IsDatetime(series) /\ HasDuplicateKeys(series.items)
              => pc = "raised" /\ err = "ValueError"
        /\ IsDatetime(series) /\ HasZeroOrNegative(series.items)
              => pc = "raised" /\ err = "ValueError"
        /\ IsDatetime(series) /\ ~HasDuplicateKeys(series.items)
                              /\ ~HasZeroOrNegative(series.items)
              => pc = "ready" /\ err = "none"
        /\ pc = "raised" => self_series = <<>>

\* C1, amended: construction raises TypeError on an index that is not date/time
\* typed; otherwise ValueError on duplicated keys or on a price that is not above
\* zero, which a zero, a negative and a missing (NaN) price all are; it succeeds on
\* every other input and leaves no accessor when it raises.
C1_Validation ==
    pc # "new" =>
        /\ ~IsDatetime(series) => pc = "raised" /\ err = "TypeError"
        /\ IsDatetime(series) /\ HasDuplicateKeys(series.items)
              => pc = "raised" /\ err = "ValueError"
        /\ IsDatetime(series)
              /\ (HasZeroOrNegative(series.items) \/ HasMissing(series.items))
              => pc = "raised" /\ err = "ValueError"
        /\ IsDatetime(series) /\ ~HasDuplicateKeys(series.items)
                              /\ ~HasZeroOrNegative(series.items)
                              /\ ~HasMissing(series.items)
              => pc = "ready" /\ err = "none"
        /\ pc = "raised" => self_series = <<>>

\* a series whose only fault is a missing price was refused with ValueError
C1_Witness ==
    /\ pc = "raised"
    /\ err = "ValueError"
    /\ IsDatetime(series)
    /\ ~HasDuplicateKeys(series.items)
    /\ ~HasZeroOrNegative(series.items)
    /\ HasMissing(series.items)

\* C2: after a successful construction the stored series is strictly ascending by
\* key and holds exactly the entries of the caller's series.
C2_SortedCopy ==
    pc = "ready" =>
        /\ Ascending(self_series)
        /\ Len(self_series) = Len(series.items)
        /\ Entries(self_series) = Entries(series.items)

\* an accessor was constructed from three entries given out of order
C2_Witness ==
    /\ pc = "ready"
    /\ call.op = "none"
    /\ Len(series.items) >= 3
    /\ ~Ascending(series.items)
    /\ self_series # series.items

\* the float x is v / first * base, for numbers v and first and an integer base
IsRebased(x, v, first, base) ==
    x[1] = "fin" /\ x[2] * first[2] * v[3] = x[3] * v[2] * first[3] * base

\* C3 as claimed: on every constructed accessor and for every base, rebase returns
\* a series with the stored keys whose first value equals base.
C3_AsClaimed ==
    Returned("rebase") =>
        /\ ret.kind = "series"
        /\ Keys(ret.val) = Keys(self_series)
        /\ FloatEq(Value(ret.val[1]), Num(call.args[1]))

\* C3, amended: on every constructed accessor whose stored series is not empty,
\* rebase(base) returns a series with the stored keys whose value at each key is
\* (stored value / stored first value) * base; its first value, the one at the
\* earliest key, equals base when the earliest price is finite, and is NaN when it
\* is infinite.  On an empty stored series rebase raises IndexError.
C3_Rebase ==
    Returned("rebase") =>
        LET base  == call.args[1]
            first == Value(self_series[1])
        IN  IF Len(self_series) = 0 THEN ret = Raise("IndexError")
            ELSE /\ ret.kind = "series"
                 /\ Keys(ret.val) = Keys(self_series)
                 /\ \A i \in 1..Len(self_series) :
                        LET v == Value(self_series[i])
                            x == Value(ret.val[i])
                        IN  /\ v[1] = "fin" /\ first[1] = "fin" => IsRebased(x, v, first, base)
                            /\ v[1] = "inf" /\ first[1] = "fin" => x = (IF base = 0 THEN NaN ELSE Inf(Sign(base)))
                            /\ v[1] = "fin" /\ first[1] = "inf" => x = Num(0)
                            /\ v[1] = "inf" /\ first[1] = "inf" => IsNaN(x)
                 /\ first[1] = "fin" => FloatEq(Value(ret.val[1]), Num(base))
                 /\ first[1] = "inf" => IsNaN(Value(ret.val[1]))

\* rebase returned on a series whose earliest entry is not the first the caller gave
C3_Witness ==
    /\ Returned("rebase")
    /\ ret.kind = "series"
    /\ Len(self_series) >= 2
    /\ Value(series.items[1]) # Value(self_series[1])
    /\ Value(self_series[1]) # Value(self_series[Len(self_series)])
    /\ Value(ret.val[1]) = Num(call.args[1])

\* the largest of the finite values s[1..i] is m
IsRunningMax(s, i, m) ==
    /\ \E j \in 1..i : Value(s[j]) = m
    /\ \A k \in 1..i : Value(s[k])[2] * m[3] <= m[2] * Value(s[k])[3]

FiniteUpTo(s, i) == \A k \in 1..i : Value(s[k])[1] = "fin"

\* the float x is (m - v) / m, negated when negative, for numbers m >= v > 0
IsDrawdown(x, m, v, negative) ==
    /\ x[1] = "fin"
    /\ x[2] * m[2] * v[3] * (IF negative THEN -1 ELSE 1) = x[3] * (m[2] * v[3] - v[2] * m[3])
    /\ IF negative THEN -x[3] <= x[2] /\ x[2] <= 0 ELSE 0 <= x[2] /\ x[2] <= x[3]

\* what C4 says of the entry at place i of a returned drawdown series
DrawdownAt(i) ==
    LET v == Value(self_series[i])
        x == Value(ret.val[i])
    IN  /\ \E j \in 1..i : /\ IsRunningMax(self_series, i, Value(self_series[j]))
                           /\ IsDrawdown(x, Value(self_series[j]), v, call.args[1])
        /\ IsRunningMax(self_series, i, v) => x = Num(0)
        /\ i = 1 => x = Num(0)

\* C4 as claimed: drawdown() returns at each key (running maximum - value) /
\* running maximum, a value in [0, 1] ([-1, 0] with negative=True) that is 0 at
\* the first key and wherever the price equals the running maximum.
C4_AsClaimed ==
    Returned("drawdown") =>
        /\ ret.kind = "series"
        /\ Keys(ret.val) = Keys(self_series)
        /\ \A i \in 1..Len(self_series) :
              /\ Value(ret.val[i])[1] = "fin"
              /\ FiniteUpTo(self_series, i) => DrawdownAt(i)

\* C4, amended: drawdown() returns, at each key up to which every stored price is
\* finite, (running maximum - value) / running maximum, a value in [0, 1] ([-1, 0]
\* with negative=True) that is 0 at the first key and wherever the price equals the
\* running maximum; from the first infinite price on it returns NaN.
C4_Drawdown ==
    Returned("drawdown") =>
        /\ ret.kind = "series"
        /\ Keys(ret.val) = Keys(self_series)
        /\ \A i \in 1..Len(self_series) :
              IF FiniteUpTo(self_series, i) THEN DrawdownAt(i)
              ELSE IsNaN(Value(ret.val[i]))

\* drawdown() returned on three prices that fall and then recover
C4_Witness ==
    /\ Returned("drawdown")
    /\ call.args = <<FALSE>>
    /\ Len(self_series) = 3
    /\ Value(ret.val[2]) = Fin(1, 2)
    /\ Value(ret.val[3]) = Num(0)
    /\ Value(self_series[3]) # Value(self_series[1])

\* m is the largest (smallest, when least) of the values of s that are not NaN,
\* and NaN when there is none
IsExtreme(m, s, least) ==
    LET nums == {i \in 1..Len(s) : ~IsNaN(Value(s[i]))}
    IN  IF nums = {} THEN IsNaN(m)
        ELSE /\ \E i \in nums : Value(s[i]) = m
             /\ \A i \in nums : IF least THEN Le(m, Value(s[i])) ELSE Le(Value(s[i]), m)

\* C5 as claimed: drawdown(negative=True) equals -drawdown(negative=False) at every
\* key, max_drawdown(negative=True) == -max_drawdown(negative=False), and
\* max_drawdown is the maximum of drawdown(), or the minimum of the negative one.
C5_AsClaimed ==
    /\ Returned("drawdown") /\ call.args[1] =>
          \A i \in 1..Len(ret.val) :
              FloatEq(Value(ret.val[i]), Neg(Value(drawdown(self_series, FALSE).ret.val[i])))
    /\ Returned("max_drawdown") /\ call.args[1] =>
          /\ FloatEq(ret.val, Neg(max_drawdown(self_series, FALSE).ret.val))
          /\ IsExtreme(ret.val, drawdown(self_series, TRUE).ret.val, TRUE)
    /\ Returned("max_drawdown") /\ ~call.args[1] =>
          IsExtreme(ret.val, drawdown(self_series, FALSE).ret.val, FALSE)

\* C5, amended: at every key drawdown(negative=True) is the negation of
\* drawdown(negative=False), both being NaN from the first infinite price on;
\* max_drawdown(negative=True) == -max_drawdown(negative=False) when the stored
\* series is not empty and its earliest price is finite, and both are NaN otherwise;
\* max_drawdown is the maximum of drawdown(), or the minimum of the negative one,
\* over the values that are not NaN.
C5_Negation ==
    /\ Returned("drawdown") /\ call.args[1] =>
          /\ Keys(ret.val) = Keys(drawdown(self_series, FALSE).ret.val)
          /\ \A i \in 1..Len(ret.val) :
                LET x == Value(ret.val[i])
                    y == Value(drawdown(self_series, FALSE).ret.val[i])
                IN  IF FiniteUpTo(self_series, i) THEN FloatEq(x, Neg(y))
                    ELSE IsNaN(x) /\ IsNaN(y)
    /\ Returned("max_drawdown") /\ call.args[1] =>
          /\ IF Len(self_series) > 0 /\ Value(self_series[1])[1] = "fin"
             THEN FloatEq(ret.val, Neg(max_drawdown(self_series, FALSE).ret.val))
             ELSE IsNaN(ret.val) /\ IsNaN(max_drawdown(self_series, FALSE).ret.val)
          /\ IsExtreme(ret.val, drawdown(self_series, TRUE).ret.val, TRUE)
    /\ Returned("max_drawdown") /\ ~call.args[1] =>
          IsExtreme(ret.val, drawdown(self_series, FALSE).ret.val, FALSE)

\* max_drawdown(negative=True) returned a fall of a half as -1/2
C5_Witness ==
    /\ Returned("max_drawdown")
    /\ call.args = <<TRUE>>
    /\ ret.val = Fin(-1, 2)
    /\ max_drawdown(self_series, FALSE).ret.val = Fin(1, 2)

\* C6: no operation changes the stored series, and a call repeated with the same
\* arguments, other calls between or not, returns what it returned first.
C6_ReadOnly ==
    pc = "ready" =>
        /\ self_series = memo.stored
        /\ memo.call.op # "none" /\ SameCall(call, memo.call) =>
              ret.kind = memo.ret.kind /\ ret.val = memo.ret.val

\* the first call was repeated after another call, on a series of two entries
C6_Witness ==
    /\ pc = "ready"
    /\ memo.between
    /\ SameCall(call, memo.call)
    /\ call.op = "rebase"
    /\ ret.kind = "series"
    /\ Len(self_series) >= 2

\* the float x is now / then - 1 (pct_returns) or log(now) - log(then) (log_returns)
IsReturn(op, x, now, then) ==
    IF op = "pct_returns"
    THEN x[1] = "fin" /\ (x[2] + x[3]) * then[2] * now[3] = x[3] * now[2] * then[3]
    ELSE x[1] = "log" /\ x[2] * then[2] * now[3] = x[3] * now[2] * then[3]

\* what C7 says of a returned series of returns
ReturnsAsClaimed ==
    LET n    == Len(self_series)
        p    == call.args[1]
        drop == call.args[2]
    IN  /\ ret.kind = "series"
        /\ drop =>
              /\ Len(ret.val) = (IF n > p THEN n - p ELSE 0)
              /\ \A j \in 1..Len(ret.val) :
                    /\ Key(ret.val[j]) = Key(self_series[p + j])
                    /\ ~IsNaN(Value(ret.val[j]))
                    /\ FiniteUpTo(self_series, n) =>
                          IsReturn(call.op, Value(ret.val[j]),
                                   Value(self_series[p + j]), Value(self_series[j]))
        /\ ~drop =>
              /\ Keys(ret.val) = Keys(self_series)
              /\ \A i \in 1..n :
                    /\ IsNaN(Value(ret.val[i])) <=> i <= p
                    /\ i > p /\ FiniteUpTo(self_series, n) =>
                          IsReturn(call.op, Value(ret.val[i]),
                                   Value(self_series[i]), Value(self_series[i - p]))

\* C7 as claimed: on a stored series of n entries, pct_returns and log_returns of
\* period p return, with dropna, n - p entries (none when p > n) keyed by the last
\* n - p keys, none missing, and without dropna n entries of which exactly the first
\* min(p, n) are missing; the entry at key i is value[i] / value[i-p] - 1, or
\* log(value[i]) - log(value[i-p]).
C7_AsClaimed == Returned("pct_returns") \/ Returned("log_returns") => ReturnsAsClaimed

\* C7, amended: the same, on a stored series of n finite prices.
C7_Returns ==
    /\ Returned("pct_returns") \/ Returned("log_returns") => ret.kind = "series"
    /\ (Returned("pct_returns") \/ Returned("log_returns")) /\ AllFinite(self_series)
          => ReturnsAsClaimed

\* pct_returns(2, dropna=True) returned the one return of three finite prices
C7_Witness ==
    /\ Returned("pct_returns")
    /\ call.args = <<2, TRUE>>
    /\ Len(self_series) = 3
    /\ AllFinite(self_series)
    /\ Len(ret.val) = 1
    /\ Value(ret.val[1]) # Num(0)

\* the whole days between the first and the last key of the stored series
ElapsedDays ==
    LET ticks == Key(self_series[Len(self_series)]) - Key(self_series[1])
    IN  CHOOSE d \in 0..ticks : d * TicksPerDay <= ticks /\ ticks < (d + 1) * TicksPerDay

\* what C8 says annualized_return and cagr return on a division by d days
AnnualizedBy(d) ==
    LET first == Value(self_series[1])
        last  == Value(self_series[Len(self_series)])
        base  == call.args[1]
    IN  /\ d >= 1
        /\ call.op = "annualized_return" =>
              /\ ret.kind = "scalar"
              /\ first[1] = "fin" /\ last[1] = "fin" =>
                    /\ ret.val[1] = "fin"
                    /\ ret.val[2] * d * first[2] * last[3]
                         = ret.val[3] * base * (last[2] * first[3] - first[2] * last[3])
        /\ call.op = "cagr" =>
              /\ ret.kind = "power"
              /\ ret.val[2][1] = "fin" /\ ret.val[2][2] * d = ret.val[2][3] * base
              /\ first[1] = "fin" /\ last[1] = "fin" =>
                    /\ ret.val[1][1] = "fin"
                    /\ ret.val[1][2] * first[2] * last[3] = ret.val[1][3] * last[2] * first[3]

\* C8 as claimed, of finite prices: on a stored series of at least two entries the
\* days between the first and the last key are at least 1, so annualized_return
\* returns abs_return * base / days and cagr returns
\* (1 + abs_return) ^ (base / days) - 1.
C8_AsClaimed ==
    /\ Returned("annualized_return") \/ Returned("cagr")
    /\ Len(self_series) >= 2
    /\ AllFinite(self_series)
    => AnnualizedBy(ElapsedDays)

\* C8, amended: on a stored series whose last key is at least one whole day (24
\* hours) after its first, the days between them are at least 1, annualized_return
\* returns abs_return * base / days and cagr returns (1 + abs_return) ^ (base /
\* days) - 1.  When the last key is less than a day after the first, two distinct
\* keys of one day included, the days are 0: annualized_return returns an infinity
\* or NaN and cagr raises ZeroDivisionError.
C8_Annualization ==
    (Returned("annualized_return") \/ Returned("cagr")) /\ Len(self_series) >= 1 =>
        IF Key(self_series[Len(self_series)]) - Key(self_series[1]) >= TicksPerDay
        THEN AnnualizedBy(ElapsedDays)
        ELSE /\ call.op = "annualized_return" => ret.kind = "scalar" /\ ret.val[1] # "fin"
             /\ call.op = "cagr" => ret = Raise("ZeroDivisionError")

\* cagr returned on two prices a day apart
C8_Witness ==
    /\ Returned("cagr")
    /\ Len(self_series) >= 2
    /\ ElapsedDays >= 1
    /\ ret.kind = "power"
    /\ Value(self_series[1]) # Value(self_series[Len(self_series)])

DefaultCall ==
    \/ call.op = "rebase" /\ call.args = <<100>>
    \/ call.op \in {"log_returns", "pct_returns"} /\ call.args = <<1, FALSE>>
    \/ call.op \in {"drawdown", "max_drawdown"} /\ call.args = <<FALSE>>

\* C9 as claimed: the module's errors are raised at construction only; on every
\* series that passes construction rebase, log_returns, pct_returns, drawdown and
\* max_drawdown with their default arguments return a series or a scalar.
C9_AsClaimed ==
    pc = "ready" =>
        /\ err = "none"
        /\ DefaultCall => ret.kind \in {"series", "scalar"}

\* C9, amended: the module's own errors (TypeError, ValueError) are raised at
\* construction only; on every series that passes construction and is not empty,
\* a single entry included, rebase, log_returns, pct_returns, drawdown and
\* max_drawdown with their default arguments return a series or a scalar.  On the
\* empty series, which passes construction, rebase raises IndexError and the other
\* four return.
C9_NoRaise ==
    pc = "ready" =>
        /\ err = "none"
        /\ ret.kind = "raise" => ret.val \in {"IndexError", "ZeroDivisionError"}
        /\ DefaultCall =>
              IF call.op = "rebase" /\ Len(self_series) = 0 THEN ret = Raise("IndexError")
              ELSE ret.kind \in {"series", "scalar"}

\* max_drawdown() returned on a series of a single entry
C9_Witness ==
    /\ Returned("max_drawdown")
    /\ call.args = <<FALSE>>
    /\ Len(self_series) = 1
    /\ ret = ScalarRet(Num(0))

\* the days of the grid of a frequency code, 'BW' being the weekly Friday grid
GridDay(freq, t) ==
    IF freq = "B" THEN Weekday(t) \in 0..4
    ELSE IF freq = "BW" THEN Weekday(t) = 4
    ELSE TRUE

\* the grid points from the first stored key up to the tick last: the ticks on a
\* day of the grid at the first key's time of day
GridPoints(freq, last) ==
    {g \in Key(self_series[1])..last :
        GridDay(freq, g) /\ TimeOfDay(g) = TimeOfDay(Key(self_series[1]))}

\* the last stored key moved back to the day of the grid before it, at its own time
\* of day
LastKeyRolledBack(freq) ==
    LET last == Key(self_series[Len(self_series)])
        back == {u \in 0..last : GridDay(freq, u) /\ TimeOfDay(u) = TimeOfDay(last)}
    IN  CHOOSE u \in back : \A w \in back : w <= u

\* the float x is what the method gives the grid point g
IsFilled(x, g, method) ==
    LET s      == self_series
        at     == {i \in 1..Len(s) : Key(s[i]) = g}
        before == {i \in 1..Len(s) : Key(s[i]) < g}
        after  == {i \in 1..Len(s) : Key(s[i]) > g}
    IN  IF at # {} THEN \E i \in at : x = Value(s[i])
        ELSE IF method = "pad"
             THEN \E i \in before : x = Value(s[i]) /\ \A j \in before : Key(s[j]) <= Key(s[i])
        ELSE IF method = "backfill"
             THEN \E i \in after : x = Value(s[i]) /\ \A j \in after : Key(s[i]) <= Key(s[j])
        ELSE IsNaN(x)

\* set_frequency returned a series keyed by the grid points up to last, filled by
\* the method
GridUpTo(last) ==
    /\ ret.kind = "series"
    /\ Ascending(ret.val)
    /\ {Key(ret.val[i]) : i \in 1..Len(ret.val)} = GridPoints(call.args[1], last)
    /\ \A i \in 1..Len(ret.val) : IsFilled(Value(ret.val[i]), Key(ret.val[i]), call.args[2])

\* C10 as claimed: set_frequency(freq, method) returns a series keyed by exactly the
\* grid points between the first and the last stored key, each holding the stored
\* value at it or else the value the method fills in: the one at the latest key
\* before it (pad), at the earliest key after it (backfill), or NaN (no method).
C10_AsClaimed ==
    Returned("set_frequency") /\ Len(self_series) >= 1
        => GridUpTo(Key(self_series[Len(self_series)]))

\* C10, amended: the same, the grid being the days of the frequency at the first
\* stored key's time of day, and the grid points being those between the first
\* stored key and the last one, where a last key that is not on a day of the grid
\* while the first key is counts as the same time of day on the day of the grid
\* before it: a grid point later in that day than the last key's time of day is
\* left out.  On an empty stored series the result is empty.
C10_Grid ==
    Returned("set_frequency") =>
        IF Len(self_series) = 0 THEN ret = SeriesRet(<<>>)
        ELSE LET freq  == call.args[1]
                 first == Key(self_series[1])
                 last  == Key(self_series[Len(self_series)])
             IN  IF GridDay(freq, first) /\ ~GridDay(freq, last)
                 THEN GridUpTo(LastKeyRolledBack(freq))
                 ELSE GridUpTo(last)

\* set_frequency('BW', 'pad') carried Thursday's price to a Friday that is no
\* stored key, and left the stored keys out
C10_Witness ==
    /\ Returned("set_frequency")
    /\ call.args = <<"BW", "pad">>
    /\ Len(self_series) >= 2
    /\ Len(ret.val) = 1
    /\ \A i \in 1..Len(self_series) : Key(self_series[i]) # Key(ret.val[1])
    /\ Value(ret.val[1]) = Value(self_series[1])
    /\ Value(self_series[2]) # Value(self_series[1])

====
